---- MODULE Spec2Model ----
(***************************************************************************)
(* Messenger webhook handler (src/Script/commands/edit.js).                *)
(*                                                                         *)
(* One process, configured once from its environment, serves one webhook   *)
(* request: either the GET verification handshake (verifyHandler) or a     *)
(* POST event delivery (messageHandler), which walks entry[].messaging[]   *)
(* and awaits the reply of every event before it acknowledges.             *)
(*                                                                         *)
(* Encoding of JavaScript values                                           *)
(*   - query parameters, tokens and ids are TLA+ strings; Undefined and    *)
(*     Null stand for the JS values undefined and null;                    *)
(*   - JSON nodes of the POST body are records tagged by field t           *)
(*     ("undefined", "null", "prim", "string", "array", "obj");            *)
(*   - text that the code inspects (message.text, postback.payload) is a   *)
(*     sequence of code units, each a one-character string or, without a   *)
(*     TLA+ escape, the string "U+XXXX" of its code point.                 *)
(***************************************************************************)
EXTENDS Integers, Sequences, FiniteSets, TLC

VARIABLES
    VERIFY_TOKEN,       \* module constant, line 27
    PAGE_ACCESS_TOKEN,  \* module constant, line 28
    pc,                 \* "idle" | "entry" | "event" | "fetch" | "json" | "safeSend"
                        \* | "handler" | "messageHandler" | "done"
    req,                \* the request being served
    res,                \* the call made on the response object (status 0: none yet)
    entries,            \* messageHandler: const entries
    changes,            \* messageHandler: const changes of the entry being walked
    ei,                 \* index of the entry being walked (1-based)
    mi,                 \* index of the event being walked (1-based)
    handled,            \* number of events the inner loop has visited
    replies,            \* calls of safeSend(recipientId, text), tagged with the event's position
    fetchCalls,         \* calls of _fetch(url, ...), tagged with the event's position
    inflight,           \* the sends whose network round trip has not ended yet
    send,               \* the send being awaited: res.ok, and the exception in flight
    errorLog            \* messages written with console.error

vars == <<VERIFY_TOKEN, PAGE_ACCESS_TOKEN, pc, req, res, entries, changes, ei, mi,
          handled, replies, fetchCalls, inflight, send, errorLog>>

----------------------------------------------------------------------------
(* Bounds of the explored inputs *)

MaxEntries == 2     \* longest entry array
MaxEvents == 2      \* most events carried by one structured body
MaxPad == 1         \* longest run of whitespace put around a text

----------------------------------------------------------------------------
(* JavaScript values *)

Undefined == "<undefined>"
Null == "<null>"

\* truthiness of a string-or-undefined-or-null value
Truthy(s) == s \notin {Undefined, Null, ""}

NoVal == [t |-> "undefined"]
NullVal == [t |-> "null"]
PrimVal == [t |-> "prim"]            \* a truthy number / string without the properties read
Txt(chars) == [t |-> "string", chars |-> chars]
Arr(items) == [t |-> "array", items |-> items]

\* truthiness of a JSON node
TruthyVal(v) ==
    /\ v.t \notin {"undefined", "null"}
    /\ (v.t = "string" => v.chars # <<>>)

----------------------------------------------------------------------------
(* Configuration, lines 27-28 *)

DEFAULT_VERIFY_TOKEN == "replace_with_verify_token"

LoadVerifyToken(env) == IF Truthy(env) THEN env ELSE DEFAULT_VERIFY_TOKEN

LoadPageAccessToken(env) == IF Truthy(env) THEN env ELSE Null

\* process.env of the explored deployments
Environments ==
    { [VERIFY_TOKEN |-> Undefined, PAGE_ACCESS_TOKEN |-> Undefined],
      [VERIFY_TOKEN |-> "s3cret",  PAGE_ACCESS_TOKEN |-> "EAAG"],
      [VERIFY_TOKEN |-> "",        PAGE_ACCESS_TOKEN |-> ""],
      [VERIFY_TOKEN |-> "s3cret",  PAGE_ACCESS_TOKEN |-> Undefined] }

----------------------------------------------------------------------------
(* Response object: the call the handler makes on res *)

NoResponse == [status |-> 0, body |-> Undefined]

\* res.sendStatus(code): the handler passes no body
sendStatus(code) == [status |-> code, body |-> Undefined]

\* res.status(code).send(body)
statusSend(code, body) == [status |-> code, body |-> body]

----------------------------------------------------------------------------
(* GET /webhook, lines 69-89 *)

verifyHandler_matchEither(query, verifyToken) ==
    IF Truthy(query.mode) /\ Truthy(query.token)
    THEN IF query.mode = "subscribe" \/ query.token = verifyToken
         THEN statusSend(200, query.challenge)
         ELSE sendStatus(403)
    ELSE sendStatus(400)

verifyHandler_noChallenge(query, verifyToken) ==
    IF Truthy(query.mode) /\ Truthy(query.token)
    THEN IF query.mode = "subscribe" /\ query.token = verifyToken
         THEN sendStatus(200)
         ELSE sendStatus(403)
    ELSE sendStatus(400)

verifyHandler(query, verifyToken) ==
    IF Truthy(query.mode) /\ Truthy(query.token)
    THEN IF query.mode = "subscribe" /\ query.token = verifyToken
         THEN statusSend(200, query.challenge)
         ELSE sendStatus(403)
    ELSE sendStatus(400)

Modes == {Undefined, "", "subscribe", "unsubscribe"}
Tokens == {Undefined, "", "s3cret", DEFAULT_VERIFY_TOKEN, "wrong"}
Challenges == {Undefined, "1158201444", "a b&c"}

Queries == [mode : Modes, token : Tokens, challenge : Challenges]

----------------------------------------------------------------------------
(* Text: String.prototype.trim and the /.../i tests, lines 134-147 *)

\* The code units String.prototype.trim strips: WhiteSpace and LineTerminator
\* of ECMAScript. A code unit without a TLA+ string escape is written by its
\* code point, "U+XXXX" (U+000B is \v, U+00A0 the no-break space, U+FEFF the
\* byte order mark).
WhiteSpace ==
    { "\t", "\n", "U+000B", "\f", "\r", " ", "U+00A0", "U+1680",
      "U+2000", "U+2001", "U+2002", "U+2003", "U+2004", "U+2005", "U+2006",
      "U+2007", "U+2008", "U+2009", "U+200A",
      "U+2028", "U+2029", "U+202F", "U+205F", "U+3000", "U+FEFF" }

UpperChars == <<"A","B","C","D","E","F","G","H","I","J","K","L","M",
                "N","O","P","Q","R","S","T","U","V","W","X","Y","Z">>
LowerChars == <<"a","b","c","d","e","f","g","h","i","j","k","l","m",
                "n","o","p","q","r","s","t","u","v","w","x","y","z">>

\* canonicalisation of one character under the i flag
foldChar(c) ==
    IF \E i \in 1..Len(UpperChars) : UpperChars[i] = c
    THEN LowerChars[CHOOSE i \in 1..Len(UpperChars) : UpperChars[i] = c]
    ELSE c

foldCase(s) == [i \in 1..Len(s) |-> foldChar(s[i])]

RECURSIVE trimStart(_)
trimStart(s) ==
    IF s # <<>> /\ Head(s) \in WhiteSpace THEN trimStart(Tail(s)) ELSE s

RECURSIVE trimEnd(_)
trimEnd(s) ==
    IF s # <<>> /\ s[Len(s)] \in WhiteSpace
    THEN trimEnd(SubSeq(s, 1, Len(s) - 1))
    ELSE s

trim(s) == trimEnd(trimStart(s))

W_hi == <<"h","i">>
W_hello == <<"h","e","l","l","o">>
W_hey == <<"h","e","y">>
W_help == <<"h","e","l","p">>
W_status == <<"s","t","a","t","u","s">>

\* /^(w1|w2|...)$/i.test(text): the whole text is one of the words, case folded
testExact(words, text) == foldCase(text) \in words

\* the same pattern without the ^ and $ anchors
testContains(words, text) ==
    \E i \in 1..Len(text) : \E j \in i..Len(text) :
        foldCase(SubSeq(text, i, j)) \in words

----------------------------------------------------------------------------
(* Reply Policy, lines 124-180 *)

\* the string literals of the replies; the echo and postback ones have a hole
GREETING == "greeting"          \* line 138
HELP == "help"                  \* line 143
STATUS == "status"              \* line 149
ECHO == "echo"                  \* line 156, hole: text
ATTACHMENT == "attachment"      \* line 162
POSTBACK == "postback"          \* line 176, hole: payload || '<empty>'

EMPTY_PLACEHOLDER == <<"<","e","m","p","t","y",">">>

ReplyText(template, arg) == [template |-> template, arg |-> arg]

\* the call safeSend(recipientId, text)
OutboundReply(recipientId, text) == [recipientId |-> recipientId, text |-> text]

\* event.sender?.id
senderIdOf(event) ==
    IF event.sender.t = "obj" THEN event.sender.id ELSE Undefined

textReply_unanchored(text) ==
    IF testContains({W_hi, W_hello, W_hey}, text) THEN ReplyText(GREETING, <<>>)
    ELSE IF testContains({W_help}, text) THEN ReplyText(HELP, <<>>)
    ELSE IF testContains({W_status}, text) THEN ReplyText(STATUS, <<>>)
    ELSE ReplyText(ECHO, text)

\* lines 137-157, text already trimmed
textReply(text) ==
    IF testExact({W_hi, W_hello, W_hey}, text) THEN ReplyText(GREETING, <<>>)
    ELSE IF testExact({W_help}, text) THEN ReplyText(HELP, <<>>)
    ELSE IF testExact({W_status}, text) THEN ReplyText(STATUS, <<>>)
    ELSE ReplyText(ECHO, text)

handleIncomingMessage_replyToEcho(event) ==
    LET senderId == senderIdOf(event)
        message == event.message
    IN  IF ~Truthy(senderId) THEN <<>>
        ELSE IF TruthyVal(message.text)
        THEN <<OutboundReply(senderId, textReply(trim(message.text.chars)))>>
        ELSE IF TruthyVal(message.attachments) /\ Len(message.attachments.items) # 0
        THEN <<OutboundReply(senderId, ReplyText(ATTACHMENT, <<>>))>>
        ELSE <<>>

\* lines 124-168: the sequence of safeSend calls made for the event (none or one)
handleIncomingMessage(event) ==
    LET senderId == senderIdOf(event)
        message == event.message
    IN  IF ~Truthy(senderId) \/ message.is_echo THEN <<>>
        ELSE IF TruthyVal(message.text)
        THEN <<OutboundReply(senderId, textReply(trim(message.text.chars)))>>
        ELSE IF TruthyVal(message.attachments) /\ Len(message.attachments.items) # 0
        THEN <<OutboundReply(senderId, ReplyText(ATTACHMENT, <<>>))>>
        ELSE <<>>

\* lines 171-180
handlePostback(event) ==
    LET senderId == senderIdOf(event)
        payload == event.postback.payload
    IN  IF ~Truthy(senderId) THEN <<>>
        ELSE <<OutboundReply(senderId,
                 ReplyText(POSTBACK,
                           IF TruthyVal(payload) THEN payload.chars
                           ELSE EMPTY_PLACEHOLDER))>>

\* reading a property of an event: a primitive has none of them
eventProp(event, name) == IF event.t = "obj" THEN event[name] ELSE NoVal

eventReplies_bothHandlers(event) ==
    (IF TruthyVal(eventProp(event, "message"))
     THEN handleIncomingMessage(event) ELSE <<>>)
    \o
    (IF TruthyVal(eventProp(event, "postback"))
     THEN handlePostback(event) ELSE <<>>)

\* lines 105-108: messageHandler awaits a handler for the event
awaitsHandler(event) ==
    TruthyVal(eventProp(event, "message")) \/ TruthyVal(eventProp(event, "postback"))

\* lines 105-111: message before postback, otherwise only logged
eventReplies(event) ==
    IF TruthyVal(eventProp(event, "message")) THEN handleIncomingMessage(event)
    ELSE IF TruthyVal(eventProp(event, "postback")) THEN handlePostback(event)
    ELSE <<>>

----------------------------------------------------------------------------
(* Reply Sender, lines 39-66 and 183-194 *)

\* line 185: safeSend goes on to sendTextMessage
safeSendProceeds(pageAccessToken) == ~ (~Truthy(pageAccessToken))

\* line 40: sendTextMessage goes on to _fetch
sendTextMessageProceeds(pageAccessToken) == ~ (~Truthy(pageAccessToken))

\* a reply reaches _fetch only past both guards
willFetch(pageAccessToken) ==
    safeSendProceeds(pageAccessToken) /\ sendTextMessageProceeds(pageAccessToken)

\* await _fetch(url, ...), line 52: a response with res.ok, one without, or a
\* rejection (also the throw of the _fetch stand-in of line 36)
FetchResults == {"ok", "non2xx", "reject"}

\* await res.json(), line 57: the decoded body, or a rejection
JsonResults == {"parsed", "badjson"}

Settled(threw, logs) == [threw |-> threw, logs |-> logs]

\* the send awaited by the handler: nothing known of it yet
NoSend == [resOk |-> FALSE, threw |-> FALSE]

\* lines 52 and 62-64: a rejected fetch is logged and rethrown by sendTextMessage
sendTextMessageFetched(result) ==
    IF result = "reject" THEN Settled(TRUE, {"Error sending message:"})
    ELSE Settled(FALSE, {})

\* lines 57-64: a rejected res.json() is logged and rethrown; a decoded body
\* of a response that is not ok is logged and returned
sendTextMessageDecoded(resOk, result) ==
    IF result = "badjson" THEN Settled(TRUE, {"Error sending message:"})
    ELSE Settled(FALSE, IF ~resOk THEN {"Failed to send message:"} ELSE {})

catchAndLog_rethrow(threw, message) ==
    Settled(threw, IF threw THEN {message} ELSE {})

\* the catch blocks of safeSend (191-193) and of the event handlers (165-167,
\* 177-179): console.error, and the function returns normally
catchAndLog(threw, message) ==
    Settled(FALSE, IF threw THEN {message} ELSE {})

\* the message of the catch block of the handler that took the event
handlerErrorLog(event) ==
    IF TruthyVal(eventProp(event, "message")) THEN "handleIncomingMessage error:"
    ELSE "handlePostback error:"

----------------------------------------------------------------------------
(* Event Dispatcher, lines 92-121 *)

bodyValid_anyObject(body) == TruthyVal(body)

\* line 95, negated
bodyValid(body) == TruthyVal(body) /\ body.object = "page"

\* line 100
entriesOf(body) ==
    IF body.entry.t = "array" THEN body.entry.items ELSE <<body.entry>>

\* reading entry.messaging throws a TypeError on undefined and null
entryThrows(entry) == entry.t \in {"undefined", "null"}

\* line 102
changesOf(entry) ==
    LET messaging == IF entry.t = "obj" THEN entry.messaging ELSE NoVal
    IN  IF TruthyVal(messaging) THEN messaging ELSE Arr(<<>>)

\* for (const event of changes): arrays and strings are iterable
iterable(node) == node.t \in {"array", "string"}

HexDigits == {"0","1","2","3","4","5","6","7","8","9","A","B","C","D","E","F"}

\* the code units U+D800..U+DBFF and U+DC00..U+DFFF
HighSurrogates ==
    { "U+D" \o a \o b \o c : a \in {"8","9","A","B"}, b \in HexDigits, c \in HexDigits }
LowSurrogates ==
    { "U+D" \o a \o b \o c : a \in {"C","D","E","F"}, b \in HexDigits, c \in HexDigits }

\* the string iterator walks by code point: a high surrogate directly followed
\* by a low one is a single element, any other code unit is one of its own
RECURSIVE codePointCount(_)
codePointCount(chars) ==
    IF chars = <<>> THEN 0
    ELSE IF Len(chars) >= 2 /\ chars[1] \in HighSurrogates /\ chars[2] \in LowSurrogates
    THEN 1 + codePointCount(SubSeq(chars, 3, Len(chars)))
    ELSE 1 + codePointCount(Tail(chars))

iterate(node) ==
    IF node.t = "array" THEN node.items
    ELSE [i \in 1..codePointCount(node.chars) |-> PrimVal]

\* reading event.message throws a TypeError on undefined and null
eventThrows(event) == event.t \in {"undefined", "null"}

----------------------------------------------------------------------------
(* Explored requests *)

Sender(id) == [t |-> "obj", id |-> id]
Msg(text, isEcho, attachments) ==
    [t |-> "obj", text |-> text, is_echo |-> isEcho, attachments |-> attachments]
Pb(payload) == [t |-> "obj", payload |-> payload]
Ev(sender, message, postback) ==
    [t |-> "obj", sender |-> sender, message |-> message, postback |-> postback]
EntryObj(messaging) == [t |-> "obj", messaging |-> messaging]
Body(object, entry) == [t |-> "obj", object |-> object, entry |-> entry]

SeqsUpTo(S, n) == UNION { [1..k -> S] : k \in 0..n }

BUY_1 == <<"B","U","Y","_","1">>
IMAGE == [type |-> "image"]

\* texts: a core padded with whitespace on either side
PadChars == {" ", "\r", "U+00A0"}
Pads == SeqsUpTo(PadChars, MaxPad)
Cores ==
    { <<>>,
      <<"h","i">>, <<"H","i">>, <<"H","E","L","L","O">>, <<"h","e","y">>,
      <<"h","e","l","p">>, <<"H","E","L","P">>,
      <<"s","t","a","t","u","s">>, <<"S","t","a","t","u","s">>,
      <<"b","a","n","a","n","a">>, <<"B","a","n","a","n","a">>,
      <<"h","i"," ","y","o">>, <<"h","e","l","p","s">>, <<"o","h","e","y">> }
Texts == { l \o c \o r : l \in Pads, c \in Cores, r \in Pads }

GreetEvent == Ev(Sender("U1"), Msg(Txt(W_hi), FALSE, NoVal), NoVal)
EchoEvent == Ev(Sender("U1"), Msg(Txt(W_hi), TRUE, NoVal), Pb(Txt(BUY_1)))
PostbackEvent == Ev(Sender("U2"), NoVal, Pb(Txt(BUY_1)))
UnknownEvent == Ev(Sender("U1"), NoVal, NoVal)

\* the events of the structured bodies
CoreEvents == {GreetEvent, EchoEvent, PostbackEvent, UnknownEvent}

TextEvents == { Ev(Sender("U1"), Msg(Txt(x), FALSE, NoVal), NoVal) : x \in Texts }

OtherEvents ==
    { Ev(Sender("U1"), Msg(NoVal, FALSE, Arr(<<IMAGE>>)), NoVal),
      Ev(Sender("U1"), Msg(NoVal, FALSE, Arr(<<IMAGE, IMAGE>>)), NoVal),
      Ev(Sender("U1"), Msg(NoVal, FALSE, Arr(<<>>)), NoVal),
      Ev(Sender("U1"), Msg(NoVal, FALSE, NoVal), NoVal),
      Ev(Sender("U1"), Msg(Txt(W_help), FALSE, Arr(<<IMAGE>>)), NoVal),
      Ev(Sender("U1"), Msg(Txt(<<"b","a","n","a","n","a">>), FALSE, Arr(<<IMAGE>>)), NoVal),
      Ev(Sender("U1"), Msg(Txt(<<>>), FALSE, Arr(<<IMAGE>>)), NoVal),
      Ev(Sender("U1"), Msg(Txt(W_status), FALSE, NoVal), Pb(Txt(BUY_1))),
      Ev(Sender("U1"), Msg(NoVal, TRUE, Arr(<<IMAGE>>)), NoVal),
      Ev(Sender("U1"), Msg(Txt(<<"b","a","n","a","n","a">>), TRUE, NoVal), NoVal),
      Ev(NoVal, Msg(Txt(W_hi), FALSE, NoVal), NoVal),
      Ev(Sender(Undefined), Msg(Txt(W_hi), FALSE, NoVal), NoVal),
      Ev(Sender(""), Msg(NoVal, FALSE, Arr(<<IMAGE>>)), NoVal),
      Ev(NoVal, NoVal, Pb(Txt(BUY_1))),
      Ev(Sender(Undefined), Msg(Txt(W_hi), FALSE, NoVal), Pb(Txt(BUY_1))),
      Ev(Sender("U2"), NoVal, Pb(NoVal)),
      Ev(Sender("U2"), NoVal, Pb(Txt(<<>>))),
      NullVal }

EventsOfNode(node) ==
    IF node.t = "obj" /\ node.messaging.t = "array" THEN Len(node.messaging.items) ELSE 0

\* entry elements that carry no event
EmptyElems == { NullVal, EntryObj(NoVal), EntryObj(Arr(<<>>)) }

\* entry elements that carry one to k events
ElemsUpTo(k) == { EntryObj(Arr(s)) : s \in SeqsUpTo(CoreEvents, k) \ {<<>>} }

\* entry lists of exactly n elements carrying at most k events in all
RECURSIVE EntryLists(_, _)
EntryLists(n, k) ==
    IF n = 0 THEN { <<>> }
    ELSE UNION { { <<e>> \o rest : rest \in EntryLists(n - 1, k - EventsOfNode(e)) } :
                 e \in EmptyElems \cup ElemsUpTo(k) }

StructuredBodies ==
    { Body("page", Arr(l)) : l \in UNION { EntryLists(n, MaxEvents) : n \in 0..MaxEntries } }

SingleEventBodies ==
    { Body("page", Arr(<<EntryObj(Arr(<<e>>))>>)) : e \in TextEvents \cup OtherEvents }

\* entry or messaging of another shape than an array of objects
OddShapedBodies ==
    { Body("page", e) :
        e \in { NoVal, NullVal, PrimVal,
                EntryObj(Arr(<<GreetEvent>>)),
                EntryObj(NoVal),
                Arr(<<PrimVal>>),
                Arr(<<EntryObj([t |-> "obj"])>>),
                Arr(<<EntryObj(Txt(<<"a","b">>))>>),
                Arr(<<EntryObj(Txt(<<"a","U+D83D","U+DE00">>))>>),
                Arr(<<EntryObj(Txt(<<"U+DE00","U+D83D">>))>>),
                Arr(<<EntryObj(NullVal)>>),
                Arr(<<EntryObj(Arr(<<GreetEvent>>)), NullVal>>),
                Arr(<<EntryObj(Arr(<<GreetEvent, NullVal>>))>>) } }

RejectedBodies ==
    { NoVal, NullVal }
    \cup { Body(o, e) : o \in {"user", Undefined, "Page"},
                        e \in {NoVal, Arr(<<EntryObj(Arr(<<GreetEvent>>))>>)} }

Bodies == StructuredBodies \cup SingleEventBodies \cup OddShapedBodies \cup RejectedBodies

----------------------------------------------------------------------------
(* The process *)

At(r) == [at |-> <<ei, mi>>, recipientId |-> r.recipientId, text |-> r.text]

Init ==
    /\ \E env \in Environments :
          /\ VERIFY_TOKEN = LoadVerifyToken(env.VERIFY_TOKEN)
          /\ PAGE_ACCESS_TOKEN = LoadPageAccessToken(env.PAGE_ACCESS_TOKEN)
    /\ pc = "idle"
    /\ req = [method |-> "none"]
    /\ res = NoResponse
    /\ entries = <<>>
    /\ changes = <<>>
    /\ ei = 0
    /\ mi = 0
    /\ handled = 0
    /\ replies = <<>>
    /\ fetchCalls = <<>>
    /\ inflight = <<>>
    /\ send = NoSend
    /\ errorLog = {}

\* app.get(path, verifyHandler)
ReceiveGet(query) ==
    /\ pc = "idle"
    /\ req' = [method |-> "GET", query |-> query]
    /\ res' = verifyHandler(query, VERIFY_TOKEN)
    /\ pc' = "done"
    /\ UNCHANGED <<VERIFY_TOKEN, PAGE_ACCESS_TOKEN, send, entries, changes, ei, mi,
                   handled, replies, fetchCalls, inflight, errorLog>>

\* app.post(path, messageHandler): lines 93-100
ReceivePost(body) ==
    /\ pc = "idle"
    /\ req' = [method |-> "POST", body |-> body]
    /\ IF bodyValid(body)
       THEN /\ entries' = entriesOf(body)
            /\ ei' = 1
            /\ pc' = "entry"
            /\ res' = res
       ELSE /\ res' = sendStatus(400)
            /\ pc' = "done"
            /\ UNCHANGED <<entries, ei>>
    /\ UNCHANGED <<VERIFY_TOKEN, PAGE_ACCESS_TOKEN, send, changes, mi,
                   handled, replies, fetchCalls, inflight, errorLog>>

\* lines 101-102: the outer loop takes the next entry and reads its messaging
OpenEntry ==
    /\ pc = "entry"
    /\ ei <= Len(entries)
    /\ LET entry == entries[ei]
       IN  IF entryThrows(entry) \/ ~iterable(changesOf(entry))
           THEN /\ errorLog' = errorLog \cup {"Message handler error:"}
                /\ res' = sendStatus(500)
                /\ pc' = "done"
                /\ UNCHANGED <<changes, mi>>
           ELSE /\ changes' = iterate(changesOf(entry))
                /\ mi' = 1
                /\ pc' = "event"
                /\ UNCHANGED <<res, errorLog>>
    /\ UNCHANGED <<VERIFY_TOKEN, PAGE_ACCESS_TOKEN, send, req, entries, ei,
                   handled, replies, fetchCalls, inflight>>

\* lines 103-111: the inner loop takes the next event and awaits its handler
HandleEvent ==
    /\ pc = "event"
    /\ mi <= Len(changes)
    /\ LET event == changes[mi]
       IN  IF eventThrows(event)
           THEN /\ errorLog' = errorLog \cup {"Message handler error:"}
                /\ res' = sendStatus(500)
                /\ pc' = "done"
                /\ UNCHANGED <<mi, handled, replies, fetchCalls, inflight>>
           ELSE LET out == [i \in 1..Len(eventReplies(event)) |-> At(eventReplies(event)[i])]
                IN  /\ handled' = handled + 1
                    /\ replies' = replies \o out
                    /\ IF out # <<>> /\ willFetch(PAGE_ACCESS_TOKEN)
                       THEN \* suspended at await _fetch
                            /\ fetchCalls' = fetchCalls \o out
                            /\ inflight' = out
                            /\ pc' = "fetch"
                            /\ mi' = mi
                       ELSE IF out # <<>>
                       THEN \* safeSend has returned; the handler is suspended at await safeSend
                            /\ pc' = "handler"
                            /\ mi' = mi
                            /\ UNCHANGED <<fetchCalls, inflight>>
                       ELSE IF awaitsHandler(event)
                       THEN \* the handler has returned; messageHandler is suspended at its await
                            /\ pc' = "messageHandler"
                            /\ mi' = mi
                            /\ UNCHANGED <<fetchCalls, inflight>>
                       ELSE \* line 110: only logged, the loop goes on
                            /\ mi' = mi + 1
                            /\ pc' = "event"
                            /\ UNCHANGED <<fetchCalls, inflight>>
                    /\ UNCHANGED <<res, errorLog>>
    /\ UNCHANGED <<VERIFY_TOKEN, PAGE_ACCESS_TOKEN, send, req, entries, changes, ei>>

\* line 52: the awaited _fetch settles inside sendTextMessage
FetchSettles(result) ==
    /\ pc = "fetch"
    /\ LET r == sendTextMessageFetched(result)
       IN  /\ errorLog' = errorLog \cup r.logs
           /\ send' = [resOk |-> result = "ok", threw |-> r.threw]
           /\ IF r.threw
              THEN /\ inflight' = <<>>
                   /\ pc' = "safeSend"
              ELSE /\ inflight' = inflight
                   /\ pc' = "json"
    /\ UNCHANGED <<VERIFY_TOKEN, PAGE_ACCESS_TOKEN, req, res, entries, changes, ei, mi,
                   handled, replies, fetchCalls>>

\* lines 57-64: the awaited res.json() settles and sendTextMessage ends
JsonSettles(result) ==
    /\ pc = "json"
    /\ LET r == sendTextMessageDecoded(send.resOk, result)
       IN  /\ errorLog' = errorLog \cup r.logs
           /\ send' = [send EXCEPT !.threw = r.threw]
    /\ inflight' = <<>>
    /\ pc' = "safeSend"
    /\ UNCHANGED <<VERIFY_TOKEN, PAGE_ACCESS_TOKEN, req, res, entries, changes, ei, mi,
                   handled, replies, fetchCalls>>

\* lines 190-193: safeSend resumes from await sendTextMessage and ends
SafeSendResumes ==
    /\ pc = "safeSend"
    /\ LET r == catchAndLog(send.threw, "safeSend failed:")
       IN  /\ errorLog' = errorLog \cup r.logs
           /\ send' = [send EXCEPT !.threw = r.threw]
    /\ pc' = "handler"
    /\ UNCHANGED <<VERIFY_TOKEN, PAGE_ACCESS_TOKEN, req, res, entries, changes, ei, mi,
                   handled, replies, fetchCalls, inflight>>

\* the handler resumes from await safeSend and returns (lines 138-139, 176),
\* through its catch block (165-167, 177-179) if safeSend threw
HandlerResumes ==
    /\ pc = "handler"
    /\ LET r == catchAndLog(send.threw, handlerErrorLog(changes[mi]))
       IN  /\ errorLog' = errorLog \cup r.logs
           /\ send' = [send EXCEPT !.threw = r.threw]
    /\ pc' = "messageHandler"
    /\ UNCHANGED <<VERIFY_TOKEN, PAGE_ACCESS_TOKEN, req, res, entries, changes, ei, mi,
                   handled, replies, fetchCalls, inflight>>

\* messageHandler resumes from await handleIncomingMessage / handlePostback
\* (lines 106, 108) and goes on with the loop, or lands in its catch (117-119)
MessageHandlerResumes ==
    /\ pc = "messageHandler"
    /\ IF send.threw
       THEN /\ errorLog' = errorLog \cup {"Message handler error:"}
            /\ res' = sendStatus(500)
            /\ pc' = "done"
            /\ mi' = mi
       ELSE /\ mi' = mi + 1
            /\ pc' = "event"
            /\ UNCHANGED <<res, errorLog>>
    /\ send' = NoSend
    /\ UNCHANGED <<VERIFY_TOKEN, PAGE_ACCESS_TOKEN, req, entries, changes, ei,
                   handled, replies, fetchCalls, inflight>>

\* the inner loop is exhausted: back to the outer loop
CloseEntry ==
    /\ pc = "event"
    /\ mi > Len(changes)
    /\ ei' = ei + 1
    /\ pc' = "entry"
    /\ UNCHANGED <<VERIFY_TOKEN, PAGE_ACCESS_TOKEN, send, req, res, entries, changes, mi,
                   handled, replies, fetchCalls, inflight, errorLog>>

\* line 116: the outer loop is exhausted
Acknowledge ==
    /\ pc = "entry"
    /\ ei > Len(entries)
    /\ res' = sendStatus(200)
    /\ pc' = "done"
    /\ UNCHANGED <<VERIFY_TOKEN, PAGE_ACCESS_TOKEN, send, req, entries, changes, ei, mi,
                   handled, replies, fetchCalls, inflight, errorLog>>

Next ==
    \/ \E query \in Queries : ReceiveGet(query)
    \/ \E body \in Bodies : ReceivePost(body)
    \/ OpenEntry
    \/ HandleEvent
    \/ \E result \in FetchResults : FetchSettles(result)
    \/ \E result \in JsonResults : JsonSettles(result)
    \/ SafeSendResumes
    \/ HandlerResumes
    \/ MessageHandlerResumes
    \/ CloseEntry
    \/ Acknowledge

Spec == Init /\ [][Next]_vars

----------------------------------------------------------------------------
(* Vocabulary of the properties *)

Done == pc = "done"
IsGet == req.method = "GET"
IsPost == req.method = "POST"
TokenAbsent == ~Truthy(PAGE_ACCESS_TOKEN)

\* the entries whose messaging the loop can walk
WalkableEntries ==
    { e \in 1..Len(entries) :
        ~entryThrows(entries[e]) /\ iterable(changesOf(entries[e])) }

EventsOfEntry(e) == iterate(changesOf(entries[e]))

\* the positions <<entry, event>> of the request's events
AllPositions ==
    UNION { { <<e, m>> : m \in 1..Len(EventsOfEntry(e)) } : e \in WalkableEntries }

EventOf(at) == EventsOfEntry(at[1])[at[2]]

HasSenderId(event) == event.sender.t = "obj" /\ event.sender.id # Undefined

IsEchoEvent(event) == event.message.t = "obj" /\ event.message.is_echo

\* an echo, or an event without sender.id
Silenced(event) == event.t = "obj" /\ (IsEchoEvent(event) \/ ~HasSenderId(event))

\* neither message nor postback
UnknownKind(event) ==
    event.t # "obj" \/ (event.message.t # "obj" /\ event.postback.t # "obj")

\* a non-echo message with a non-empty sender id and a non-empty text
TextCase(event) ==
    /\ event.t = "obj"
    /\ event.sender.t = "obj" /\ event.sender.id \notin {Undefined, ""}
    /\ event.message.t = "obj" /\ ~event.message.is_echo
    /\ event.message.text.t = "string" /\ event.message.text.chars # <<>>

\* entry is an array of objects, each with an array of event objects
WellFormedBody(body) ==
    /\ body.t = "obj"
    /\ body.object = "page"
    /\ body.entry.t = "array"
    /\ \A i \in 1..Len(body.entry.items) :
          LET entry == body.entry.items[i]
          IN  /\ entry.t = "obj"
              /\ entry.messaging.t = "array"
              /\ \A j \in 1..Len(entry.messaging.items) :
                    entry.messaging.items[j].t = "obj"

RECURSIVE CountEvents(_)
CountEvents(items) ==
    IF items = <<>> THEN 0
    ELSE Len(Head(items).messaging.items) + CountEvents(Tail(items))

SenderLogs == {"Failed to send message:", "Error sending message:", "safeSend failed:"}

----------------------------------------------------------------------------
(* Properties *)

\* C1: a handshake with hub.mode = "subscribe" and hub.verify_token equal to the
\* verify secret is answered 200 with exactly hub.challenge as the body.
C1_HandshakeReturnsChallenge ==
    (Done /\ IsGet /\ req.query.mode = "subscribe" /\ req.query.token = VERIFY_TOKEN)
        => res = [status |-> 200, body |-> req.query.challenge]

C1_Witness ==
    /\ Done /\ IsGet
    /\ req.query.mode = "subscribe"
    /\ req.query.token = VERIFY_TOKEN
    /\ req.query.challenge = "a b&c"
    /\ res.status = 200 /\ res.body = "a b&c"

\* C2, as stated: mode and token both present (whatever their value) without a
\* match is answered 403 with no body; mode or token absent is answered 400.
C2_PresentMismatchIs403 ==
    (Done /\ IsGet) =>
        LET q == req.query
            match == q.mode = "subscribe" /\ q.token = VERIFY_TOKEN
        IN  /\ (q.mode # Undefined /\ q.token # Undefined /\ ~match)
                  => (res.status = 403 /\ res.body = Undefined)
            /\ (q.mode = Undefined \/ q.token = Undefined)
                  => (res.status = 400 /\ res.body = Undefined)

\* C2, amended: mode and token both present and non-empty without a match is
\* answered 403 with no body; mode or token absent or empty is answered 400
\* with no body; the challenge is returned in neither case.
C2_Rejection ==
    (Done /\ IsGet) =>
        LET q == req.query
            match == q.mode = "subscribe" /\ q.token = VERIFY_TOKEN
        IN  /\ (q.mode \notin {Undefined, ""} /\ q.token \notin {Undefined, ""} /\ ~match)
                  => (res.status = 403 /\ res.body = Undefined)
            /\ (q.mode \in {Undefined, ""} \/ q.token \in {Undefined, ""})
                  => (res.status = 400 /\ res.body = Undefined)

C2_Witness ==
    /\ Done /\ IsGet
    /\ req.query.mode = "subscribe"
    /\ req.query.token = "wrong"
    /\ req.query.challenge = "1158201444"
    /\ res.status = 403 /\ res.body = Undefined

\* C3: a POST whose body is missing or whose object is not "page" is answered
\* 400 at once: no event is visited, no reply produced, no send made.
C3_NonPageRejected ==
    (IsPost /\ (req.body.t # "obj" \/ req.body.object # "page"))
        => /\ Done
           /\ res.status = 400
           /\ handled = 0
           /\ replies = <<>>
           /\ fetchCalls = <<>>

C3_Witness ==
    /\ IsPost /\ Done
    /\ req.body.t = "obj"
    /\ req.body.object = "user"
    /\ req.body.entry = Arr(<<EntryObj(Arr(<<GreetEvent>>))>>)
    /\ ~TokenAbsent
    /\ res.status = 400

\* C4: an event whose message is an echo, or that has no sender.id, gets no
\* reply and no send, be it a text, an attachment or a postback, also when
\* it carries a message and a postback.
C4_NoReplyToEchoOrSenderless ==
    /\ \A i \in 1..Len(replies) : ~Silenced(EventOf(replies[i].at))
    /\ \A i \in 1..Len(fetchCalls) : ~Silenced(EventOf(fetchCalls[i].at))

C4_Witness ==
    /\ IsPost /\ Done /\ res.status = 200
    /\ ~TokenAbsent
    /\ handled = 2
    /\ changes = <<EchoEvent, GreetEvent>>
    /\ Len(replies) = 1 /\ replies[1].at = <<1, 2>>
    /\ Len(fetchCalls) = 1

\* C5: the acknowledgment is not held back by a send: once reply generation
\* has been initiated for every event (the send of the last event is in
\* flight), the 200 has been sent.
C5_AckNotBlockedBySend ==
    (pc = "fetch" /\ ei = Len(entries) /\ mi = Len(changes)) => res.status = 200

\* C6: for a page POST with a well-formed entry list, no outcome of a send
\* changes the acknowledgment: the answer is 200, the failure is only logged by
\* the sender, and every event of the request is still visited.
C6_DeliveryFailureAbsorbed ==
    (IsPost /\ WellFormedBody(req.body)) =>
        /\ res.status \in {0, 200}
        /\ "Message handler error:" \notin errorLog
        /\ Done => /\ res.status = 200
                   /\ handled = CountEvents(req.body.entry.items)

C6_Witness ==
    /\ IsPost /\ Done /\ res.status = 200
    /\ WellFormedBody(req.body)
    /\ changes = <<GreetEvent, EchoEvent>>
    /\ handled = 2
    /\ Len(fetchCalls) = 1
    /\ errorLog = {"Error sending message:", "safeSend failed:"}

\* C7: a page POST whose entry is absent, null or not a list of entry objects
\* with messaging lists counts as zero events: answered 200, no reply.
C7_MalformedEntryIsEmpty ==
    (IsPost /\ Done /\ req.body.t = "obj" /\ req.body.object = "page"
       /\ ~WellFormedBody(req.body))
        => /\ res.status = 200
           /\ handled = 0
           /\ replies = <<>>

\* C8: without PAGE_ACCESS_TOKEN no reply reaches the network, the sender
\* raises and logs no error, and a request for which a reply was produced is
\* still answered 200.
C8_NoTokenNoOpAnd200 ==
    TokenAbsent =>
        /\ fetchCalls = <<>>
        /\ inflight = <<>>
        /\ errorLog \cap SenderLogs = {}
        /\ (IsPost /\ Done /\ replies # <<>>) => res.status = 200

\* the reply the policy prescribes for a text; the echo carries either the
\* original text or the trimmed one
PolicyReply(orig, echoOriginal) ==
    LET n == foldCase(trim(orig))
    IN  IF n \in {W_hi, W_hello, W_hey} THEN ReplyText(GREETING, <<>>)
        ELSE IF n = W_help THEN ReplyText(HELP, <<>>)
        ELSE IF n = W_status THEN ReplyText(STATUS, <<>>)
        ELSE ReplyText(ECHO, IF echoOriginal THEN orig ELSE trim(orig))

TextPolicyHolds(echoOriginal) ==
    /\ \A i \in 1..Len(replies) :
          LET event == EventOf(replies[i].at)
          IN  TextCase(event) =>
                /\ replies[i].recipientId = event.sender.id
                /\ replies[i].text = PolicyReply(event.message.text.chars, echoOriginal)
    /\ (IsPost /\ Done /\ res.status = 200) =>
          \A at \in AllPositions :
              TextCase(EventOf(at)) => \E i \in 1..Len(replies) : replies[i].at = at

\* C9, as stated: the text of a non-echo message with a sender decides the
\* reply after trimming and case folding, whole-string match, first match
\* wins; anything else is echoed with the original, untrimmed text.
C9_EchoesOriginalText == TextPolicyHolds(TRUE)

\* C9, amended: the same, except that the echo reply carries the trimmed text
\* (leading and trailing whitespace removed, case kept).
C9_TextPolicy == TextPolicyHolds(FALSE)

C9_Witness ==
    /\ IsPost /\ Done /\ res.status = 200
    /\ Len(replies) = 1
    /\ replies[1].text = ReplyText(ECHO, <<"B","a","n","a","n","a">>)
    /\ EventOf(replies[1].at).message.text.chars # <<"B","a","n","a","n","a">>

\* C10: every event is visited once and classified message-before-postback;
\* it produces at most one reply and that reply at most one fetch, also
\* after a failed send; unknown events produce none.
C10_AtMostOnePerEvent ==
    /\ handled <= Cardinality(AllPositions)
    /\ Len(replies) <= handled
    /\ Len(fetchCalls) <= Len(replies)
    /\ \A i, j \in 1..Len(replies) : replies[i].at = replies[j].at => i = j
    /\ \A i, j \in 1..Len(fetchCalls) : fetchCalls[i].at = fetchCalls[j].at => i = j
    /\ \A i \in 1..Len(fetchCalls) : \E j \in 1..Len(replies) : fetchCalls[i] = replies[j]
    /\ \A i \in 1..Len(replies) :
          LET event == EventOf(replies[i].at)
          IN  /\ ~UnknownKind(event)
              /\ (replies[i].text.template = POSTBACK) <=> (event.message.t # "obj")

C10_Witness ==
    /\ IsPost /\ Done /\ res.status = 200
    /\ changes = <<GreetEvent, UnknownEvent>>
    /\ handled = 2
    /\ Len(fetchCalls) = 1
    /\ errorLog # {}

====
